---- MODULE Spec2Model ----
(***************************************************************************)
(* Job orchestration of the video slowdown tool: the JobManager (pending   *)
(* queue, active mapping, concurrency limit, paused flag), the             *)
(* ProcessorWorker run loop with its external ffmpeg process, the Qt event *)
(* queue that carries worker signals to the GUI thread, and the MainWindow *)
(* handlers that drive the manager (Start, Cancel Selected, Retry          *)
(* Selected, pause/resume queue, concurrency spin box).                    *)
(*                                                                         *)
(* Where the manager or the whole application is examined, ffmpeg keeps    *)
(* its stderr open until it exits: the reading loop meets end of file only *)
(* once the process has exited.  Where a single worker is examined the     *)
(* stream may also close while the process lives on, and the loop may end  *)
(* by the break taken when the stop flag is found set after a line.        *)
(*                                                                         *)
(* Floats are fixed point: seconds are integers, the worker's expected     *)
(* duration is kept in hundredths of a second (0.01 s = 1) and a progress  *)
(* fraction in thousandths (1.0 = 1000).  Strings built with f-strings are *)
(* records [text, args] so that two messages are equal exactly when the    *)
(* formatted strings are.  The table widget, the log pane and the ETA      *)
(* column only display what the signals carry and are not modelled.        *)
(***************************************************************************)
EXTENDS Integers, Sequences, FiniteSets, TLC

\* ---------------------------------------------------------------- bounds
NumJobs == 2        \* jobs at hand
MaxSubmits == 2     \* add_job calls in one behaviour (one ProcessorWorker each)
MaxLines == 3       \* stderr lines read when a single worker is examined
MaxN == 2           \* largest concurrency limit tried
MaxQueue == 3       \* jobs at hand when the limit is changed under load
MaxStamp == 2       \* distinct readings of the clock told apart in Job.end_time
LiveLines == 1      \* stderr lines printed when progress to the finish is examined

JobIds == 1..NumJobs
WorkerIds == 1..MaxSubmits

\* ------------------------------------------------------------- variables
VARIABLES
    jobs,         \* MainWindow.jobs: sequence of Job records, Job.id = index
    max_workers,  \* JobManager.max_workers
    pending,      \* JobManager.pending (FIFO of job ids)
    active,       \* JobManager.active: job id -> worker id, 0 when absent
    paused,       \* JobManager._paused
    workers,      \* every ProcessorWorker created so far, in creation order
    evQ,          \* queued signal deliveries waiting in the GUI thread's event loop
    ui,           \* what the GUI thread is executing
    job_status,   \* the job_status signal emitted by the last step (job id 0: none)
    queue_finished, \* whether the last step emitted queue_finished
    pause_supported, \* whether psutil can be imported on this host
    linesLeft,    \* stderr lines the processes may still print (bound)
    submitLog,    \* history: job ids in add_job order
    rearmed       \* history: add_job was called since the last queue_finished (or since the start)

vars == <<jobs, max_workers, pending, active, paused, workers, evQ, ui, job_status,
          queue_finished, pause_supported, linesLeft, submitLog, rearmed>>

\* ------------------------------------------------------------ data shapes
Msg(text, args) == [text |-> text, args |-> args]
NoMsg == Msg("", <<>>)

\* A queued signal emission of worker w.
Ev(w, kind, ok, msg, val) == [w |-> w, kind |-> kind, ok |-> ok, msg |-> msg, val |-> val]

\* time= tokens a line may carry: HH:MM:SS fields, or something unparsable.
Tok(parts, numeric) == [parts |-> parts, numeric |-> numeric]
Tokens == { Tok(<<0, 0, 1>>, TRUE), Tok(<<0, 0, 3>>, TRUE),
            Tok(<<0, 3>>, TRUE), Tok(<<0>>, FALSE) }
NoTok == Tok(<<>>, FALSE)

\* A stderr line: blank, text without "time=", or text with a time= token.
Line(kind, tok) == [kind |-> kind, tok |-> tok]
Lines == { Line("blank", NoTok), Line("noise", NoTok) }
         \cup { Line("time", t) : t \in Tokens }

Durations == {0, 2}          \* probed input durations, seconds
ExitCodes == {0, 1}          \* exit codes of a process that ends by itself
SigTermCode == 0 - 15        \* Popen.returncode of a process ended by SIGTERM

\* Every value Popen.returncode can take: an exit status, or minus the number of
\* the signal that ended the process.
ReturnCodes == (0 - 31)..255

\* ------------------------------------------------------------------ Job
\* end_time is None (0) or the reading of the clock at its last assignment; the
\* k-th assignment to a job's end_time reads clock value k, up to MaxStamp.
NewJob == [status |-> "Pending", duration |-> 0, progress |-> 0, command |-> 0,
           end_time |-> 0]

\* time.time() at an assignment to an end_time that holds t.
Now(t) == IF t < MaxStamp THEN t + 1 ELSE MaxStamp

mark_running(job) == [job EXCEPT !.status = "Running", !.progress = 0]

mark_completed(job) ==
    [job EXCEPT !.status = "Completed", !.progress = 1000, !.end_time = Now(@)]

mark_failedKeepsStatus(job) == job

mark_failed(job) == [job EXCEPT !.status = "Failed", !.end_time = Now(@)]

mark_canceled(job) == [job EXCEPT !.status = "Canceled", !.end_time = Now(@)]

\* ----------------------------------------------------- progress parsing
ParseTimeAnyFields(tok) ==
    IF Len(tok.parts) >= 1 /\ tok.numeric
    THEN [some |-> TRUE, v |-> tok.parts[Len(tok.parts)]]
    ELSE [some |-> FALSE, v |-> 0]

\* parse_ffmpeg_time_to_seconds: three ':' separated numeric fields or None.
ParseTime(tok) ==
    IF Len(tok.parts) = 3 /\ tok.numeric
    THEN [some |-> TRUE,
          v |-> tok.parts[1] * 3600 + tok.parts[2] * 60 + tok.parts[3]]
    ELSE [some |-> FALSE, v |-> 0]

Max(a, b) == IF a >= b THEN a ELSE b
Min(a, b) == IF a <= b THEN a ELSE b

\* duration = max(job.duration * 2.0, 0.01), in hundredths of a second.
ExpectedDuration(d) == Max(d * 200, 1)

\* prog = min(max(current_time_seconds / duration, 0.0), 1.0), in thousandths.
ProgressOf(t, duration) == Min(Max((t * 100 * 1000) \div duration, 0), 1000)

\* Body of the reading loop after the stop/pause checks: the events one line yields.
LineEvents(w, line, idx, duration) ==
    IF line.kind = "blank" THEN <<>>
    ELSE LET log == Ev(w, "log", FALSE, NoMsg, idx)
             t == ParseTime(line.tok)
         IN IF line.kind = "time" /\ t.some
            THEN <<log, Ev(w, "progress", FALSE, NoMsg, ProgressOf(t.v, duration))>>
            ELSE <<log>>

\* What a worker's trace keeps of an emitted signal.
Kinds(evs) == [i \in DOMAIN evs |-> <<evs[i].kind, evs[i].val>>]

\* --------------------------------------------------------- worker helpers
\* stopAtExit is history, kept until run() returns: whether the stop flag was set
\* when the process exited.
NewWorker(j, supported) ==
    [job |-> j, pc |-> "queued", stop |-> FALSE, pause |-> FALSE,
     pause_supported |-> supported,
     proc |-> "none", suspended |-> FALSE, signalled |-> FALSE, code |-> 0,
     stopAtExit |-> FALSE,
     duration |-> 0, nread |-> 0, line |-> Line("blank", NoTok),
     trace |-> <<>>]

\* A worker whose run() has returned and whose last signal was delivered: the
\* QRunnable is deleted, nothing refers to it any more.
Deleted(wr) == [NewWorker(wr.job, wr.pause_supported) EXCEPT !.pc = "deleted"]

\* ret = self._process.wait(timeout=1): the exit code, or -1 when the wait raises.
WaitResult(proc, code) == IF proc = "exited" THEN code ELSE 0 - 1

FinishOutcomeExitCodeFirst(stopped, ret) ==
    IF ret = 0 THEN [ok |-> TRUE, msg |-> Msg("OK", <<>>)]
    ELSE IF stopped THEN [ok |-> FALSE, msg |-> Msg("Canceled", <<>>)]
    ELSE [ok |-> FALSE, msg |-> Msg("ffmpeg exited with code ", <<ret>>)]

\* The arguments of the terminal finished signal.
FinishOutcome(stopped, ret) ==
    IF stopped THEN [ok |-> FALSE, msg |-> Msg("Canceled", <<>>)]
    ELSE IF ret = 0 THEN [ok |-> TRUE, msg |-> Msg("OK", <<>>)]
    ELSE [ok |-> FALSE, msg |-> Msg("ffmpeg exited with code ", <<ret>>)]

\* ProcessorWorker.cancel on a worker record.
cancel(wr) ==
    [wr EXCEPT !.stop = TRUE,
               !.signalled = @ \/ (wr.proc = "running")]

pause(wr) == [wr EXCEPT !.pause = TRUE]

resumeDropsLine(wr) == [wr EXCEPT !.pause = FALSE, !.line = Line("blank", NoTok)]

resume(wr) == [wr EXCEPT !.pause = FALSE]

\* -------------------------------------------------------------- manager
NumActive(act) == Cardinality({j \in DOMAIN act : act[j] # 0})

CanDispatchOffByOne(act, mw, pq) == NumActive(act) <= mw /\ pq # <<>>

CanDispatch(act, mw, pq) == NumActive(act) < mw /\ pq # <<>>

RECURSIVE DispatchLoop(_)
DispatchLoop(m) ==
    IF CanDispatch(m.active, m.max_workers, m.pending)
    THEN LET j == Head(m.pending)
             w == Len(m.workers) + 1
         IN DispatchLoop([m EXCEPT !.pending = Tail(@),
                                   !.active[j] = w,
                                   !.workers = Append(@, NewWorker(j, m.supported))])
    ELSE m

MaybeDispatchIgnoringPause(m) == DispatchLoop(m)

\* JobManager._maybe_dispatch on the manager state m.
MaybeDispatch(m) == IF m.paused THEN m ELSE DispatchLoop(m)

\* The manager's fields (and the workers it creates) as one value.
Mgr ==
    [max_workers |-> max_workers, pending |-> pending, active |-> active,
     paused |-> paused, workers |-> workers, supported |-> pause_supported]

SetMgr(m) ==
    /\ max_workers' = m.max_workers
    /\ pending' = m.pending
    /\ active' = m.active
    /\ paused' = m.paused
    /\ workers' = m.workers

set_concurrencyUnclamped(m, n) == MaybeDispatch([m EXCEPT !.max_workers = n])

set_concurrency(m, n) == MaybeDispatch([m EXCEPT !.max_workers = Max(1, n)])

add_jobWithoutDispatch(m, j) == [m EXCEPT !.pending = Append(@, j)]

add_jobInFront(m, j) == MaybeDispatch([m EXCEPT !.pending = <<j>> \o @])

add_job(m, j) == MaybeDispatch([m EXCEPT !.pending = Append(@, j)])

pause_queue(m) == [m EXCEPT !.paused = TRUE]

IsActive(act, w) == \E j \in DOMAIN act : act[j] = w

resume_queueFlagOnly(m) == MaybeDispatch([m EXCEPT !.paused = FALSE])

resume_queue(m) ==
    MaybeDispatch([m EXCEPT
        !.paused = FALSE,
        !.workers = [k \in DOMAIN m.workers |->
                        IF IsActive(m.active, k) THEN resume(m.workers[k])
                        ELSE m.workers[k]]])

cancel_jobDropsPending(m, j) ==
    IF m.active[j] # 0 THEN [m EXCEPT !.workers[m.active[j]] = cancel(@)]
    ELSE [m EXCEPT !.pending = SelectSeq(@, LAMBDA x : x # j)]

cancel_job(m, j) ==
    IF m.active[j] # 0 THEN [m EXCEPT !.workers[m.active[j]] = cancel(@)] ELSE m

pause_job(m, j) ==
    IF m.active[j] # 0 THEN [m EXCEPT !.workers[m.active[j]] = pause(@)] ELSE m

resume_job(m, j) ==
    IF m.active[j] # 0 THEN [m EXCEPT !.workers[m.active[j]] = resume(@)] ELSE m

\* Status strings shown in the status column.
StatusText(head, detail) == [head |-> head, detail |-> detail]

\* The text _on_finished republishes on job_status.
TerminalStatus(ok, message) ==
    IF ok THEN StatusText("Completed", NoMsg) ELSE StatusText("Failed: ", message)

on_finishedKeepsActive(m, j) == MaybeDispatch(m)

on_finishedWithoutDispatch(m, j) == [m EXCEPT !.active[j] = 0]

\* _on_finished up to the re-dispatch; the queue_finished test follows it.
on_finished(m, j) == MaybeDispatch([m EXCEPT !.active[j] = 0])

QueueDrained(m) == NumActive(m.active) = 0 /\ m.pending = <<>>

NoStatus == [job_id |-> 0, status |-> StatusText("", NoMsg)]

\* A step in which the JobManager emits none of its own signals.
Quiet == job_status' = NoStatus /\ queue_finished' = FALSE

\* The GUI thread: in its event loop, or inside _start_queue at row idx, before
\* the row is looked at ("start") or between add_job and the Queued write ("enqueued").
UiIdle == [op |-> "idle", idx |-> 0]
Idle == ui.op = "idle"

mgrVars == <<max_workers, pending, active, paused>>
histVars == <<submitLog, rearmed>>

\* ------------------------------------------------- ProcessorWorker.run
\* mark_running, the Running status signal, and the launch of ffmpeg.
WorkerStart(w, launch_ok) ==
    /\ w \in DOMAIN workers
    /\ workers[w].pc = "queued"
    /\ LET j == workers[w].job
           running == Ev(w, "status", FALSE, Msg("Running", <<>>), 0)
           evs == IF launch_ok
                  THEN <<running, Ev(w, "started", FALSE, NoMsg, w)>>
                  ELSE <<running,
                         Ev(w, "finished", FALSE, Msg("Failed to start ffmpeg: ", <<>>), 0)>>
       IN /\ jobs' = [jobs EXCEPT ![j] = mark_running(@)]
          /\ workers' = [workers EXCEPT
                 ![w].duration = ExpectedDuration(jobs[j].duration),
                 ![w].pc = IF launch_ok THEN "read" ELSE "done",
                 ![w].proc = IF launch_ok THEN "running" ELSE "none",
                 ![w].trace = @ \o Kinds(evs)]
          /\ evQ' = evQ \o evs
    /\ Quiet
    /\ UNCHANGED <<mgrVars, ui, pause_supported, linesLeft, histVars>>

FinishedSilentWhenStopped(w, wr) ==
    IF wr.stop THEN <<>>
    ELSE LET out == FinishOutcome(FALSE, WaitResult(wr.proc, wr.code))
         IN <<Ev(w, "finished", out.ok, out.msg, 0)>>

\* Lines 122-135: wait(timeout=1) for the exit code, the read of the stop flag,
\* and the finished signal.
Finished(w, wr) ==
    LET ret == WaitResult(wr.proc, wr.code)
        out == FinishOutcome(wr.stop, ret)
    IN <<Ev(w, "finished", out.ok, out.msg, 0)>>

\* One iteration of "for line in self._process.stderr": break when stopped (and
\* finish), enter the pause loop when paused, else handle the line.
WorkerReadLine(w, ln) ==
    /\ w \in DOMAIN workers
    /\ workers[w].pc = "read"
    /\ linesLeft > 0
    /\ linesLeft' = linesLeft - 1
    /\ LET wr == workers[w]
           evs == IF wr.stop THEN Finished(w, wr)
                  ELSE IF wr.pause THEN <<>>
                  ELSE LineEvents(w, ln, wr.nread + 1, wr.duration)
       IN /\ workers' = [workers EXCEPT
                 ![w].nread = @ + 1,
                 ![w].pc = IF wr.stop THEN "done"
                           ELSE IF wr.pause THEN "paused" ELSE "read",
                 ![w].stopAtExit = IF wr.stop THEN FALSE ELSE @,
                 ![w].line = IF ~wr.stop /\ wr.pause THEN ln ELSE @,
                 ![w].suspended = IF ~wr.stop /\ wr.pause
                                  THEN wr.pause_supported /\ wr.proc = "running"
                                  ELSE @,
                 ![w].trace = @ \o Kinds(evs)]
          /\ evQ' = evQ \o evs
    /\ Quiet
    /\ UNCHANGED <<jobs, mgrVars, ui, pause_supported, histVars>>

PauseLoopEndsOnResume(wr) == ~wr.pause

\* The inner loop "while pause is set and stop is not set" is over.
PauseLoopEnds(wr) == ~wr.pause \/ wr.stop

\* The pause loop ends (resume or cancel); the held line is then processed.
WorkerPauseExit(w) ==
    /\ w \in DOMAIN workers
    /\ workers[w].pc = "paused"
    /\ PauseLoopEnds(workers[w])
    /\ LET wr == workers[w]
           evs == LineEvents(w, wr.line, wr.nread, wr.duration)
       IN /\ workers' = [workers EXCEPT
                 ![w].pc = "read",
                 ![w].suspended = FALSE,
                 ![w].line = Line("blank", NoTok),
                 ![w].trace = @ \o Kinds(evs)]
          /\ evQ' = evQ \o evs
    /\ Quiet
    /\ UNCHANGED <<jobs, mgrVars, ui, pause_supported, linesLeft, histVars>>

\* The process has exited and the stream reaches end of file: the loop ends and
\* the worker finishes.
WorkerReadEOF(w) ==
    /\ w \in DOMAIN workers
    /\ workers[w].pc = "read"
    /\ workers[w].proc = "exited"
    /\ LET evs == Finished(w, workers[w])
       IN /\ workers' = [workers EXCEPT ![w].pc = "done", ![w].stopAtExit = FALSE,
                                     ![w].trace = @ \o Kinds(evs)]
          /\ evQ' = evQ \o evs
    /\ Quiet
    /\ UNCHANGED <<jobs, mgrVars, ui, pause_supported, linesLeft, histVars>>

\* The process closes its stderr and keeps running: the loop ends at end of file
\* and the bounded wait that follows expires.
WorkerStreamClosed(w) ==
    /\ w \in DOMAIN workers
    /\ workers[w].pc = "read"
    /\ workers[w].proc = "running"
    /\ LET evs == Finished(w, workers[w])
       IN /\ workers' = [workers EXCEPT ![w].pc = "done", ![w].stopAtExit = FALSE,
                                     ![w].trace = @ \o Kinds(evs)]
          /\ evQ' = evQ \o evs
    /\ Quiet
    /\ UNCHANGED <<jobs, mgrVars, ui, pause_supported, linesLeft, histVars>>

\* The ffmpeg process ends: by itself, or on the termination signal.  The process
\* is followed until run() returns; nothing reads its state after that.
ProcExit(w, c) ==
    /\ w \in DOMAIN workers
    /\ workers[w].pc \in {"read", "paused"}
    /\ workers[w].proc = "running"
    /\ ~workers[w].suspended
    /\ c \in ExitCodes \/ (workers[w].signalled /\ c = SigTermCode)
    /\ workers' = [workers EXCEPT ![w].proc = "exited", ![w].code = c,
                                  ![w].stopAtExit = workers[w].stop]
    /\ Quiet
    /\ UNCHANGED <<jobs, mgrVars, evQ, ui, pause_supported, linesLeft, histVars>>

\* ------------------------------------------- JobManager slots (GUI thread)
HeadIs(kind) == Idle /\ evQ # <<>> /\ Head(evQ).kind = kind

HeadJob == workers[Head(evQ).w].job

_on_status ==
    /\ HeadIs("status")
    /\ evQ' = Tail(evQ)
    /\ job_status' = [job_id |-> HeadJob, status |-> StatusText(Head(evQ).msg.text, NoMsg)]
    /\ queue_finished' = FALSE
    /\ UNCHANGED <<jobs, mgrVars, workers, ui, pause_supported, linesLeft, histVars>>

_on_started ==
    /\ HeadIs("started")
    /\ evQ' = Tail(evQ)
    /\ job_status' = [job_id |-> HeadJob,
                      status |-> StatusText("PID ", Msg("", <<Head(evQ).val>>))]
    /\ queue_finished' = FALSE
    /\ UNCHANGED <<jobs, mgrVars, workers, ui, pause_supported, linesLeft, histVars>>

_on_log ==
    /\ HeadIs("log")
    /\ evQ' = Tail(evQ)
    /\ Quiet
    /\ UNCHANGED <<jobs, mgrVars, workers, ui, pause_supported, linesLeft, histVars>>

_on_progress ==
    /\ HeadIs("progress")
    /\ evQ' = Tail(evQ)
    /\ Quiet
    /\ UNCHANGED <<jobs, mgrVars, workers, ui, pause_supported, linesLeft, histVars>>

_on_finished ==
    /\ HeadIs("finished")
    /\ evQ' = Tail(evQ)
    /\ LET e == Head(evQ)
           m == on_finished([Mgr EXCEPT !.workers[e.w] = Deleted(@)], HeadJob)
       IN /\ SetMgr(m)
          /\ job_status' = [job_id |-> HeadJob, status |-> TerminalStatus(e.ok, e.msg)]
          /\ queue_finished' = QueueDrained(m)
          /\ rearmed' = (rearmed /\ ~QueueDrained(m))
    /\ UNCHANGED <<jobs, ui, pause_supported, linesLeft, submitLog>>

\* --------------------------------- JobManager driven through its own API

ApiAddJob(j) ==
    /\ Idle
    /\ j \in DOMAIN jobs
    /\ \A k \in DOMAIN submitLog : submitLog[k] # j
    /\ SetMgr(add_job(Mgr, j))
    /\ submitLog' = Append(submitLog, j)
    /\ rearmed' = TRUE
    /\ Quiet
    /\ UNCHANGED <<jobs, evQ, ui, pause_supported, linesLeft>>

\* set_concurrency called with any integer, 0 included.
ApiSetConcurrency(n) ==
    /\ Idle
    /\ SetMgr(set_concurrency(Mgr, n))
    /\ Quiet
    /\ UNCHANGED <<jobs, evQ, ui, pause_supported, linesLeft, histVars>>

ApiCancelJob(j) ==
    /\ Idle
    /\ j \in DOMAIN jobs
    /\ SetMgr(cancel_job(Mgr, j))
    /\ Quiet
    /\ UNCHANGED <<jobs, evQ, ui, pause_supported, linesLeft, histVars>>

ApiPauseJob(j) ==
    /\ Idle
    /\ j \in DOMAIN jobs
    /\ SetMgr(pause_job(Mgr, j))
    /\ Quiet
    /\ UNCHANGED <<jobs, evQ, ui, pause_supported, linesLeft, histVars>>

ApiResumeJob(j) ==
    /\ Idle
    /\ j \in DOMAIN jobs
    /\ SetMgr(resume_job(Mgr, j))
    /\ Quiet
    /\ UNCHANGED <<jobs, evQ, ui, pause_supported, linesLeft, histVars>>

\* ------------------------------------------------------------ MainWindow
\* The probed duration of the file behind each job.
FileDuration(j) == IF j = 1 THEN 0 ELSE 2

Eligible(job) == job.status \in {"Pending", "Skipped", "Failed", "Canceled"}

\* Where _start_queue goes after row i.
AfterRow(i) == IF i < Len(jobs) THEN [op |-> "start", idx |-> i + 1] ELSE UiIdle

\* The Start button: _start_queue begins its pass over the rows.
StartQueue ==
    /\ Idle
    /\ Len(jobs) > 0
    /\ ui' = [op |-> "start", idx |-> 1]
    /\ Quiet
    /\ UNCHANGED <<jobs, mgrVars, workers, evQ, pause_supported, linesLeft, histVars>>

\* What probe_media may answer: it raises, or it reports the streams of the file.
\* Once MaxSubmits jobs were submitted every further probe fails or finds no stream.
Probes ==
    {[ok |-> FALSE, has_video |-> FALSE, has_audio |-> FALSE],
     [ok |-> TRUE, has_video |-> FALSE, has_audio |-> FALSE]}
    \cup (IF Len(submitLog) < MaxSubmits
          THEN {[ok |-> TRUE, has_video |-> TRUE, has_audio |-> TRUE]}
          ELSE {})

\* One row of the loop, lines 408-458: skip, probe, build the command, add_job.
StartRow(pr) ==
    /\ ui.op = "start"
    /\ pr \in Probes
    /\ LET i == ui.idx
           job == jobs[i]
           probed == [job EXCEPT !.duration = FileDuration(i)]
       IN IF ~Eligible(job)
          THEN /\ ui' = AfterRow(i)
               /\ UNCHANGED <<jobs, mgrVars, workers, histVars>>
          ELSE IF ~pr.ok
          THEN /\ jobs' = [jobs EXCEPT ![i] = mark_failed(job)]
               /\ ui' = AfterRow(i)
               /\ UNCHANGED <<mgrVars, workers, histVars>>
          ELSE IF ~(pr.has_video \/ pr.has_audio)
          THEN \* build_slowdown_command raises ValueError: the slot is left
               /\ jobs' = [jobs EXCEPT ![i] = probed]
               /\ ui' = UiIdle
               /\ UNCHANGED <<mgrVars, workers, histVars>>
          ELSE /\ jobs' = [jobs EXCEPT ![i] = [probed EXCEPT !.command = Len(submitLog) + 1]]
               /\ SetMgr(add_job(Mgr, i))
               /\ submitLog' = Append(submitLog, i)
               /\ rearmed' = TRUE
               /\ ui' = [op |-> "enqueued", idx |-> i]
    /\ Quiet
    /\ UNCHANGED <<evQ, pause_supported, linesLeft>>

\* Lines 459-461: the row is marked Queued after add_job has returned.
StartMarkQueued ==
    /\ ui.op = "enqueued"
    /\ jobs' = [jobs EXCEPT ![ui.idx].status = "Queued"]
    /\ ui' = AfterRow(ui.idx)
    /\ Quiet
    /\ UNCHANGED <<mgrVars, workers, evQ, pause_supported, linesLeft, histVars>>

_pause_queue ==
    /\ Idle
    /\ SetMgr(pause_queue(Mgr))
    /\ Quiet
    /\ UNCHANGED <<jobs, evQ, ui, pause_supported, linesLeft, histVars>>

_resume_queue ==
    /\ Idle
    /\ SetMgr(resume_queue(Mgr))
    /\ Quiet
    /\ UNCHANGED <<jobs, evQ, ui, pause_supported, linesLeft, histVars>>

\* The sets of selected rows the loops of Cancel/Retry Selected run over.
Selections == SUBSET (DOMAIN jobs) \ {{}}

\* cancel_job for every row of rows, in turn.
RECURSIVE CancelRows(_, _)
CancelRows(m, rows) ==
    IF rows = {} THEN m
    ELSE LET r == CHOOSE x \in rows : \A y \in rows : x <= y
         IN CancelRows(cancel_job(m, r), rows \ {r})

_cancel_selected(rows) ==
    /\ Idle
    /\ rows \in Selections
    /\ SetMgr(CancelRows(Mgr, rows))
    /\ jobs' = [i \in DOMAIN jobs |-> IF i \in rows THEN mark_canceled(jobs[i]) ELSE jobs[i]]
    /\ Quiet
    /\ UNCHANGED <<evQ, ui, pause_supported, linesLeft, histVars>>

RetryableFailedOnly(job) == job.status \in {"Failed", "Skipped"}

Retryable(job) == job.status \in {"Failed", "Canceled", "Skipped"}

_retry_selected(rows) ==
    /\ Idle
    /\ rows \in Selections
    /\ jobs' = [i \in DOMAIN jobs |->
                   IF i \in rows /\ Retryable(jobs[i])
                   THEN [jobs[i] EXCEPT !.status = "Pending", !.progress = 0]
                   ELSE jobs[i]]
    /\ Quiet
    /\ UNCHANGED <<mgrVars, workers, evQ, ui, pause_supported, linesLeft, histVars>>

\* The concurrency spin box (range from 1) changes value.
_on_concurrency_changed(value) ==
    /\ Idle
    /\ value # max_workers
    /\ SetMgr(set_concurrency(Mgr, value))
    /\ Quiet
    /\ UNCHANGED <<jobs, evQ, ui, pause_supported, linesLeft, histVars>>

\* ------------------------------------------------------- specifications
\* The pool threads of the workers ws.
WorkerSteps(ws) ==
    \/ \E w \in ws, ok \in BOOLEAN : WorkerStart(w, ok)
    \/ \E w \in ws : WorkerReadEOF(w)
    \/ \E w \in ws, c \in ExitCodes \cup {SigTermCode} : ProcExit(w, c)

WorkerStep == WorkerSteps(WorkerIds)

\* The steps that exist only when a process prints on stderr.
LineStep ==
    \/ \E w \in WorkerIds, ln \in Lines : WorkerReadLine(w, ln)
    \/ \E w \in WorkerIds : WorkerPauseExit(w)
    \/ \E w \in WorkerIds : WorkerStreamClosed(w)
    \/ _on_log
    \/ _on_progress

SlotStep ==
    \/ _on_status
    \/ _on_started
    \/ _on_finished

InitCommon ==
    /\ pending = <<>>
    /\ active = [j \in DOMAIN jobs |-> 0]
    /\ paused = FALSE
    /\ workers = <<>>
    /\ evQ = <<>>
    /\ ui = UiIdle
    /\ job_status = NoStatus
    /\ queue_finished = FALSE
    /\ submitLog = <<>>
    /\ rearmed = FALSE

\* A JobManager with NumJobs distinct jobs at hand, each submitted at most once,
\* a concurrency limit that stays as constructed, and processes that print no
\* diagnostic line.
InitApi ==
    /\ jobs = [j \in JobIds |-> [NewJob EXCEPT !.duration = FileDuration(j), !.command = 1]]
    /\ max_workers \in 1..MaxN
    /\ pause_supported = TRUE
    /\ linesLeft = 0
    /\ InitCommon

\* A JobManager with a single job at hand: one ProcessorWorker from dispatch to
\* its finished signal.
InitWorker ==
    /\ jobs \in {<<[NewJob EXCEPT !.duration = d, !.command = 1]>> : d \in Durations}
    /\ max_workers = 1
    /\ pause_supported \in BOOLEAN
    /\ linesLeft = MaxLines
    /\ InitCommon

\* The application once NumJobs files were added to the table (_append_job_row),
\* with the default concurrency of the host.
Init ==
    /\ jobs = [j \in JobIds |-> NewJob]
    /\ max_workers \in 1..MaxN
    /\ pause_supported = TRUE
    /\ linesLeft = 0
    /\ InitCommon

\* The operator's Start, Cancel Selected and Retry Selected.
UiStep ==
    \/ StartQueue
    \/ \E pr \in [ok : BOOLEAN, has_video : BOOLEAN, has_audio : BOOLEAN] : StartRow(pr)
    \/ StartMarkQueued
    \/ \E rows \in SUBSET JobIds : _cancel_selected(rows)
    \/ \E rows \in SUBSET JobIds : _retry_selected(rows)

\* The application under Start, Cancel Selected and Retry Selected, with processes
\* that print nothing on stderr.
Next == UiStep \/ WorkerStep \/ SlotStep

Spec == Init /\ [][Next]_vars

ApiStep ==
    \/ \E j \in JobIds : ApiAddJob(j)
    \/ _pause_queue
    \/ _resume_queue
    \/ \E j \in JobIds : ApiCancelJob(j)
    \/ \E j \in JobIds : ApiPauseJob(j)
    \/ \E j \in JobIds : ApiResumeJob(j)

\* Several jobs, processes that print nothing on stderr.
NextApi == ApiStep \/ WorkerStep \/ SlotStep

SpecApi == InitApi /\ [][NextApi]_vars

\* The same with the concurrency spin box in use.
NextMgr ==
    \/ NextApi
    \/ \E n \in 1..MaxN : _on_concurrency_changed(n)
    \/ \E n \in 0..MaxN : ApiSetConcurrency(n)

SpecMgr == InitApi /\ [][NextMgr]_vars

\* MaxQueue jobs under a limit that is changed while they run; no worker is
\* canceled or paused individually.
InitQueue ==
    /\ jobs = [j \in 1..MaxQueue |-> [NewJob EXCEPT !.duration = FileDuration(j), !.command = 1]]
    /\ max_workers \in 1..MaxN
    /\ pause_supported = TRUE
    /\ linesLeft = 0
    /\ InitCommon

NextQueue ==
    \/ \E j \in 1..MaxQueue : ApiAddJob(j)
    \/ _pause_queue
    \/ _resume_queue
    \/ \E n \in 0..MaxN : ApiSetConcurrency(n)
    \/ WorkerSteps(1..MaxQueue)
    \/ SlotStep

SpecQueue == InitQueue /\ [][NextQueue]_vars

\* One job, a process that prints up to MaxLines lines.
NextWorker == ApiStep \/ WorkerStep \/ LineStep \/ SlotStep

SpecWorker == InitWorker /\ [][NextWorker]_vars

\* NumJobs jobs whose processes print up to LiveLines lines between them, with the
\* scheduling the program relies on: a started worker thread runs (its launch, the
\* end of file it reads once the process has exited, the poll of its pause loop
\* every 0.1 s), and the GUI event loop delivers the queued signals.
InitLive ==
    /\ jobs = [j \in JobIds |-> [NewJob EXCEPT !.duration = FileDuration(j), !.command = 1]]
    /\ max_workers = 1
    /\ pause_supported = TRUE
    /\ linesLeft = LiveLines
    /\ InitCommon

\* The line such a process prints: a progress report.
LiveLine == Line("time", Tok(<<0, 0, 1>>, TRUE))

NextLive ==
    \/ ApiStep
    \/ WorkerStep
    \/ \E w \in WorkerIds : WorkerReadLine(w, LiveLine)
    \/ \E w \in WorkerIds : WorkerPauseExit(w)
    \/ SlotStep
    \/ _on_log
    \/ _on_progress

Scheduling ==
    /\ \A w \in WorkerIds :
          /\ WF_vars(\E ok \in BOOLEAN : WorkerStart(w, ok))
          /\ WF_vars(WorkerReadEOF(w))
          /\ SF_vars(WorkerPauseExit(w))
    /\ WF_vars(SlotStep \/ _on_log \/ _on_progress)

\* A launched process that is not suspended ends, which closes its stderr.
StreamCloses ==
    \A w \in WorkerIds : WF_vars(\E c \in ExitCodes \cup {SigTermCode} : ProcExit(w, c))

\* The user resumes a paused queue, and resumes or cancels a paused job.
UserResumes ==
    /\ WF_vars(paused /\ _resume_queue)
    /\ \A j \in JobIds :
          WF_vars(/\ active[j] # 0
                  /\ workers[active[j]].pause /\ ~workers[active[j]].stop
                  /\ (ApiResumeJob(j) \/ ApiCancelJob(j)))

SpecLive == InitLive /\ [][NextLive]_vars /\ Scheduling /\ StreamCloses /\ UserResumes

\* The same without any promise of the user: only the threads, the event loop
\* and a process that ends (by itself or on the termination signal).
SpecCancel == InitLive /\ [][NextLive]_vars /\ Scheduling /\ StreamCloses

\* ---------------------------------------------------------------- claims
\* Workers dispatched whose finished event has not been handled yet.
Running == {w \in DOMAIN workers : workers[w].pc # "deleted"}

Count(tr, kind) == Cardinality({i \in DOMAIN tr : tr[i][1] = kind})

\* The step in which the GUI thread handles a worker's finished event.
HandlesFinished == HeadIs("finished") /\ evQ' = Tail(evQ)

\* C1: with the concurrency limit held fixed and distinct jobs each submitted once,
\* the number of workers dispatched and not yet handled as finished never exceeds
\* the limit.
C1_ConcurrencyBound == Cardinality(Running) <= max_workers

\* C1 witness: the limit binds: as many workers run as it allows while a job waits.
C1_LimitReached ==
    /\ ~paused
    /\ pending # <<>>
    /\ Cardinality(Running) = max_workers

\* C2: workers are created in add_job order, and with a limit of 1 a worker is
\* created only after every earlier worker's finished event was handled.
C2_FifoDispatch ==
    /\ Len(workers) <= Len(submitLog)
    /\ \A k \in DOMAIN workers : workers[k].job = submitLog[k]
    /\ max_workers = 1 =>
          \A k \in DOMAIN workers : k < Len(workers) => workers[k].pc = "deleted"

\* C2 witness: with a limit of 1, job 2 was submitted before job 1 and both were
\* dispatched, the second while the queue had held it back.
C2_SecondStarted ==
    /\ max_workers = 1
    /\ submitLog = <<2, 1>>
    /\ Len(workers) = 2
    /\ workers[2].pc = "read"

\* C3: when the finished event of a worker whose process was launched and that
\* cancel_job has stopped is handled, the event reports Canceled and the status the
\* JobManager republishes is Canceled.
C3_CancelYieldsCanceled ==
    [][ (HandlesFinished /\ workers[Head(evQ).w].stop /\ workers[Head(evQ).w].proc # "none")
        => /\ Head(evQ).msg = Msg("Canceled", <<>>)
           /\ job_status'.status.head = "Canceled" ]_vars

\* C4: a worker that has emitted finished has emitted it once, and its process is
\* not running.
C4_FinishedAfterExit ==
    \A w \in DOMAIN workers :
        workers[w].pc = "done"
        => /\ Count(workers[w].trace, "finished") = 1
           /\ workers[w].proc # "running"

\* C5: handling a finished event emits queue_finished exactly when active and
\* pending are then both empty, and an add_job lies between two emissions.
C5_QueueFinishedOncePerDrain ==
    [][ HandlesFinished
        => /\ queue_finished' <=> (NumActive(active') = 0 /\ pending' = <<>>)
           /\ queue_finished' => rearmed ]_vars

\* C6: a job id is in pending at most once, never in pending while active, and
\* never held by two workers that are both alive.
C6_OneWorkerPerJob ==
    /\ \A i, k \in DOMAIN pending : pending[i] = pending[k] => i = k
    /\ \A i \in DOMAIN pending : active[pending[i]] = 0
    /\ \A v, w \in Running : workers[v].job = workers[w].job => v = w

EventOrder(tr) ==
    /\ Count(tr, "started") <= 1
    /\ Count(tr, "finished") <= 1
    /\ \A i \in DOMAIN tr :
          /\ tr[i][1] = "finished" => i = Len(tr)
          /\ tr[i][1] \in {"log", "progress"} => \E k \in 1..(i - 1) : tr[k][1] = "started"
          /\ tr[i][1] = "progress" => tr[i - 1][1] = "log"
          /\ \A k \in DOMAIN tr : (i < k /\ tr[i][1] = "log" /\ tr[k][1] = "log") => tr[i][2] < tr[k][2]

\* C8 as stated: every run, launch failure included, emits exactly one started, then
\* log/progress events in stream order, then exactly one finished.
C8_StartedThenFinished ==
    \A w \in DOMAIN workers :
        /\ EventOrder(workers[w].trace)
        /\ workers[w].pc = "done"
           => /\ Count(workers[w].trace, "started") = 1
              /\ Count(workers[w].trace, "finished") = 1

\* C8 amended: a run emits exactly one started when the launch succeeds and none
\* when it fails, then log/progress events in stream order (none after a failed
\* launch), then exactly one finished.
C8_StartedUnlessLaunchFails ==
    \A w \in DOMAIN workers :
        /\ EventOrder(workers[w].trace)
        /\ workers[w].pc = "done"
           => /\ Count(workers[w].trace, "started") = (IF workers[w].proc = "none" THEN 0 ELSE 1)
              /\ Count(workers[w].trace, "finished") = 1

\* C8 witness: a canceled run that has emitted started, a log with its progress, and
\* finished.
C8_FullRun ==
    \E w \in DOMAIN workers :
        /\ workers[w].pc = "done"
        /\ workers[w].stop
        /\ Count(workers[w].trace, "progress") >= 1
        /\ Count(workers[w].trace, "log") >= 2

\* C9: the finished signal emitted when the reading loop has ended reports Canceled
\* (no exit code in the message) when the stop flag is set, else success "OK" for
\* exit code 0, else failure with the exit code in the message.
C9_OutcomeFunction ==
    [][ \A w \in DOMAIN workers :
          (workers[w].pc = "read" /\ workers'[w].pc = "done")
          => LET wr == workers[w]
                 e == evQ'[Len(evQ')]
             IN /\ e.kind = "finished" /\ e.w = w
                /\ wr.stop => (~e.ok /\ e.msg = Msg("Canceled", <<>>))
                /\ (~wr.stop /\ wr.proc = "exited" /\ wr.code = 0)
                      => (e.ok /\ e.msg = Msg("OK", <<>>))
                /\ (~wr.stop /\ wr.proc = "exited" /\ wr.code # 0)
                      => (~e.ok /\ e.msg.text = "ffmpeg exited with code "
                                /\ e.msg.args = <<wr.code>>) ]_vars

\* C9 witness: a finished event reporting Canceled waits for delivery, emitted by a
\* worker whose process had exited with code 0.
C9_CanceledDespiteExitZero ==
    \E i \in DOMAIN evQ :
        /\ evQ[i].kind = "finished"
        /\ evQ[i].msg = Msg("Canceled", <<>>)
        /\ workers[evQ[i].w].proc = "exited"
        /\ workers[evQ[i].w].code = 0

\* C10: the progress values a worker reports never decrease, and a worker that
\* reports success has reported progress 1.0 before.
C10_ProgressMonotoneToOne ==
    \A w \in DOMAIN workers :
        LET tr == workers[w].trace
        IN /\ \A i, k \in DOMAIN tr :
                 (i < k /\ tr[i][1] = "progress" /\ tr[k][1] = "progress") => tr[i][2] <= tr[k][2]
           /\ \A i \in DOMAIN evQ :
                 (evQ[i].w = w /\ evQ[i].kind = "finished" /\ evQ[i].ok)
                 => \E k \in DOMAIN tr : tr[k] = <<"progress", 1000>>

\* What probe_media answers for a file it can read, with both kinds of stream.
GoodProbe == [ok |-> TRUE, has_video |-> TRUE, has_audio |-> TRUE]

InPending(pq, j) == \E k \in DOMAIN pq : pq[k] = j

\* C11: Retry Selected on a Failed or Canceled row makes it Pending with progress
\* 0, hence eligible; and Start, at a Pending row whose file probes well, calls
\* add_job for it, after which the job waits in pending or has a new worker.
C11_RetryMakesEligible ==
    /\ \A i \in DOMAIN jobs :
          (Idle /\ jobs[i].status \in {"Failed", "Canceled"})
          => ENABLED ( /\ _retry_selected({i})
                       /\ jobs'[i].status = "Pending"
                       /\ jobs'[i].progress = 0
                       /\ Eligible(jobs'[i]) )
    /\ (ui.op = "start" /\ jobs[ui.idx].status = "Pending" /\ GoodProbe \in Probes)
       => ENABLED ( /\ StartRow(GoodProbe)
                    /\ submitLog' = Append(submitLog, ui.idx)
                    /\ \/ InPending(pending', ui.idx)
                       \/ /\ Len(workers') = Len(workers) + 1
                          /\ workers'[Len(workers')] = NewWorker(ui.idx, pause_supported) )

\* C11 witness: Start stands at the row of a job that was submitted, run to its
\* finished event and canceled, and that Retry Selected has made Pending again.
C11_RetriedJobAtStart ==
    \E i \in DOMAIN jobs :
        /\ submitLog = <<i>>
        /\ workers[1].pc = "deleted"
        /\ jobs[i].status = "Pending"
        /\ ui = [op |-> "start", idx |-> i]
        /\ GoodProbe \in Probes

\* The workers other than the active worker of job j are left as they are.
OnlyWorkerOf(j) ==
    /\ DOMAIN workers' = DOMAIN workers
    /\ \A k \in DOMAIN workers : k # active[j] => workers'[k] = workers[k]

\* C12: cancel_job, pause_job and resume_job on an id that is not in active change
\* nothing (pending, active, paused flag, limit, workers); on an active id they
\* call cancel(), pause() or resume() on that worker and change nothing else.
C12_ControlForwardedOrNoOp ==
    \A j \in DOMAIN jobs :
        Idle =>
        /\ ENABLED ( /\ ApiCancelJob(j)
                     /\ UNCHANGED mgrVars
                     /\ IF active[j] = 0 THEN UNCHANGED workers
                        ELSE OnlyWorkerOf(j) /\ workers'[active[j]] = cancel(workers[active[j]])
                                             /\ workers'[active[j]].stop )
        /\ ENABLED ( /\ ApiPauseJob(j)
                     /\ UNCHANGED mgrVars
                     /\ IF active[j] = 0 THEN UNCHANGED workers
                        ELSE OnlyWorkerOf(j) /\ workers'[active[j]] = pause(workers[active[j]])
                                             /\ workers'[active[j]].pause )
        /\ ENABLED ( /\ ApiResumeJob(j)
                     /\ UNCHANGED mgrVars
                     /\ IF active[j] = 0 THEN UNCHANGED workers
                        ELSE OnlyWorkerOf(j) /\ workers'[active[j]] = resume(workers[active[j]])
                                             /\ ~workers'[active[j]].pause )

\* C12 witness: one job runs and is paused while another, not active, waits in
\* pending with the queue paused.
C12_PendingBesideActive ==
    \E i, j \in DOMAIN jobs :
        /\ Idle
        /\ paused
        /\ InPending(pending, j) /\ active[j] = 0
        /\ active[i] # 0 /\ workers[active[i]].pause /\ workers[active[i]].pc = "read"

\* How many jobs a dispatch attempt starts under limit mw.
Startable(mw) ==
    IF paused THEN 0 ELSE Min(Len(pending), Max(0, mw - NumActive(active)))

\* C13: set_concurrency(n) sets the limit to max(1, n), removes no entry of active
\* and changes no existing worker, and dispatches from the head of pending exactly
\* as many jobs as the new limit leaves room for (none when the queue is paused or
\* the active workers already reach the limit); and no step ever dispatches a job
\* unless the active workers, the new ones included, fit the limit.
C13_SetConcurrencyNeverPreempts ==
    /\ [](\A n \in 0..MaxN :
            Idle =>
            ENABLED ( /\ ApiSetConcurrency(n)
                      /\ max_workers' = Max(1, n)
                      /\ paused' = paused
                      /\ \A j \in DOMAIN active : active[j] # 0 => active'[j] = active[j]
                      /\ \A k \in DOMAIN workers : workers'[k] = workers[k]
                      /\ Len(workers') = Len(workers) + Startable(Max(1, n))
                      /\ pending' = SubSeq(pending, Startable(Max(1, n)) + 1, Len(pending))
                      /\ \A k \in (Len(workers) + 1)..Len(workers') :
                            /\ workers'[k].job = pending[k - Len(workers)]
                            /\ active'[workers'[k].job] = k ))
    /\ [][ Len(workers') > Len(workers) => NumActive(active') <= max_workers' ]_vars

\* C13 witness: the limit was lowered below the number of active workers: both keep
\* running, not canceled, and a pending job waits although the queue is not paused.
C13_LimitBelowActive ==
    /\ ~paused
    /\ pending # <<>>
    /\ NumActive(active) > max_workers
    /\ \A j \in DOMAIN active :
          active[j] # 0 => workers[active[j]].pc = "read" /\ ~workers[active[j]].stop

\* C14: resume_queue clears the paused flag, leaves no active worker with its
\* pause flag set (changing nothing else of an existing worker), and dispatches
\* from the head of pending as many jobs as the limit leaves room for.
C14_ResumeQueueResumesAll ==
    Idle =>
    ENABLED ( /\ _resume_queue
              /\ ~paused'
              /\ max_workers' = max_workers
              /\ \A j \in DOMAIN active : active[j] # 0 => active'[j] = active[j]
              /\ \A j \in DOMAIN active : active'[j] # 0 => ~workers'[active'[j]].pause
              /\ \A k \in DOMAIN workers : workers'[k] = [workers[k] EXCEPT !.pause = FALSE]
              /\ LET n == Min(Len(pending), Max(0, max_workers - NumActive(active)))
                 IN /\ Len(workers') = Len(workers) + n
                    /\ pending' = SubSeq(pending, n + 1, Len(pending)) )

\* C14 witness: the queue is paused, an active worker was also paused on its own
\* with pause_job, and a pending job has a free slot to start in.
C14_PausedTwice ==
    /\ Idle
    /\ paused
    /\ pending # <<>>
    /\ NumActive(active) < max_workers
    /\ \E j \in DOMAIN active : active[j] # 0 /\ workers[active[j]].pause

\* The step in which worker w leaves the reading loop and emits finished.
Finishes(w) == workers[w].pc = "read" /\ workers'[w].pc = "done"

\* C15: when the stream has closed and the bounded wait expires with the process
\* still running (no cancellation requested), the worker finishes all the same,
\* reporting a failure whose message is none of the messages a non-zero return
\* code gives.
C15_DidNotExitMessage ==
    [][ \A w \in DOMAIN workers :
          (Finishes(w) /\ workers[w].proc = "running" /\ ~workers[w].stop)
          => LET e == evQ'[Len(evQ')]
             IN /\ e.kind = "finished" /\ e.w = w /\ ~e.ok
                /\ \A c \in ReturnCodes \ {0} : e.msg # FinishOutcome(FALSE, c).msg ]_vars

\* C16: a worker whose process has exited reports Canceled when the stop flag was
\* set before the exit, and otherwise the exit outcome (OK for code 0, failure with
\* the code), also when cancel() was called after the exit.
C16_CancelAfterExitKeepsOutcome ==
    [][ \A w \in DOMAIN workers :
          (Finishes(w) /\ workers[w].proc = "exited")
          => LET wr == workers[w]
                 e == evQ'[Len(evQ')]
                 out == FinishOutcome(wr.stopAtExit, wr.code)
             IN e.kind = "finished" /\ e.w = w /\ e.ok = out.ok /\ e.msg = out.msg ]_vars

LaunchFailure == Msg("Failed to start ffmpeg: ", <<>>)

\* C17: a worker whose launch failed has emitted exactly one event finished, a
\* failure, and nothing but the Running status before it; and handling that event
\* removes the job from active, publishes "Failed: ..." for it and re-runs the
\* dispatch, so that afterwards no pending job is left with a free slot unless the
\* queue is paused.
C17_LaunchFailureIsLocal ==
    /\ [](\A w \in DOMAIN workers :
            (workers[w].pc = "done" /\ workers[w].proc = "none")
            => /\ Count(workers[w].trace, "finished") = 1
               /\ Count(workers[w].trace, "started") = 0
               /\ \E i \in DOMAIN evQ : /\ evQ[i] = Ev(w, "finished", FALSE, LaunchFailure, 0)
                                        /\ \A k \in DOMAIN evQ : (k > i) => evQ[k].w # w)
    /\ [][ (HandlesFinished /\ Head(evQ).msg = LaunchFailure)
           => /\ ~Head(evQ).ok
              /\ active'[HeadJob] = 0
              /\ job_status' = [job_id |-> HeadJob,
                                status |-> StatusText("Failed: ", LaunchFailure)]
              /\ \A k \in DOMAIN workers : k # Head(evQ).w => workers'[k] = workers[k]
              /\ paused' = paused
              /\ paused \/ pending' = <<>> \/ NumActive(active') >= max_workers' ]_vars

\* C17 witness: with a limit of 1 the failed launch of one job has just been
\* handled, the next job was dispatched in its place and a third still waits.
C17_NextJobDispatched ==
    /\ max_workers = 1
    /\ job_status.status = StatusText("Failed: ", LaunchFailure)
    /\ pending # <<>>
    /\ \E w \in DOMAIN workers : workers[w].pc = "queued" /\ active[workers[w].job] = w

\* The step in which _start_queue deals with the row it stands at.
HandlesRow == ui.op = "start" /\ ui' # ui

\* C18: whatever happens to the row Start deals with, the pass goes on to the rows
\* after it and leaves the other jobs as they are; and handling a worker's finished
\* event, whatever its outcome, changes no job record and no other worker.
C18_FailuresAreLocal ==
    [][ /\ HandlesRow
           => /\ ui.idx < Len(jobs) => ui'.op \in {"start", "enqueued"}
              /\ \A k \in DOMAIN jobs : k # ui.idx => jobs'[k] = jobs[k]
        /\ HandlesFinished
           => /\ jobs' = jobs
              /\ \A k \in DOMAIN workers : k # Head(evQ).w => workers'[k] = workers[k] ]_vars

\* What probe_media does on a file it cannot read: it raises.
BadProbe == [ok |-> FALSE, has_video |-> FALSE, has_audio |-> FALSE]

\* C19: when Start stands at an eligible row whose probe fails, the row becomes
\* Failed in that very step, add_job is not called (pending, active, workers and
\* the submission log stay as they are), the row is not on its way to Queued, and
\* the pass moves on.
C19_ProbeFailureGoesToFailed ==
    (ui.op = "start" /\ Eligible(jobs[ui.idx]))
    => ENABLED ( /\ StartRow(BadProbe)
                 /\ jobs'[ui.idx].status = "Failed"
                 /\ \A k \in DOMAIN jobs : k # ui.idx => jobs'[k] = jobs[k]
                 /\ UNCHANGED <<mgrVars, workers, submitLog, evQ>>
                 /\ ui' = AfterRow(ui.idx) )

\* C19 witness: the pass has moved to the second row after the probe of the first
\* failed: the first row is Failed and was never submitted.
C19_FailedNeverSubmitted ==
    /\ ui = [op |-> "start", idx |-> 2]
    /\ jobs[1].status = "Failed"
    /\ submitLog = <<>>
    /\ workers = <<>>

\* The edges of the lifecycle of Job.status.
LifecycleEdges ==
    { <<"Pending", "Queued">>, <<"Queued", "Running">>,
      <<"Running", "Completed">>, <<"Running", "Failed">>, <<"Running", "Canceled">>,
      <<"Pending", "Failed">>,
      <<"Failed", "Pending">>, <<"Canceled", "Pending">>, <<"Skipped", "Pending">> }

\* C20: every change of a job's status follows an edge of the lifecycle.
C20_StatusFollowsLifecycle ==
    [][ \A i \in DOMAIN jobs :
          jobs'[i].status # jobs[i].status
          => <<jobs[i].status, jobs'[i].status>> \in LifecycleEdges ]_vars

\* The terminal status that matches a reported outcome.
OutcomeStatus(ok, message) ==
    IF ok THEN "Completed"
    ELSE IF message = Msg("Canceled", <<>>) THEN "Canceled" ELSE "Failed"

\* C21: once the finished event of a job's worker has been handled, Job.status is
\* the terminal status matching the reported outcome.
C21_TerminalStatusOnFinish ==
    [][ HandlesFinished
        => jobs'[HeadJob].status = OutcomeStatus(Head(evQ).ok, Head(evQ).msg) ]_vars

TerminalStatuses == {"Completed", "Failed", "Canceled"}

\* C22: the end_time of a job that is in a terminal status is not assigned again,
\* and a job whose worker's finished event has been handled has its end_time set.
C22_EndTimeSetOnce ==
    [][ /\ \A i \in DOMAIN jobs :
              (jobs[i].status \in TerminalStatuses /\ jobs[i].end_time # 0)
              => jobs'[i].end_time = jobs[i].end_time
        /\ HandlesFinished => jobs'[HeadJob].end_time # 0 ]_vars

\* C23: the command of a job that is in pending or has an entry in active is not
\* reassigned.
C23_CommandImmutableWhileSubmitted ==
    [][ \A i \in DOMAIN jobs :
          (InPending(pending, i) \/ active[i] # 0)
          => jobs'[i].command = jobs[i].command ]_vars

\* C24: whenever the queue is not paused and a job waits in pending, the active
\* workers reach the limit: no operation of the manager leaves a free slot beside
\* a waiting job.
C24_WorkConserving ==
    (~paused /\ pending # <<>>) => NumActive(active) >= max_workers

\* C24 witness: with a limit of 1 a finished event was just handled and the next
\* job dispatched in its place, while a third job goes on waiting.
C24_SlotRefilled ==
    /\ ~paused
    /\ max_workers = 1
    /\ job_status.status.head \in {"Completed", "Failed: "}
    /\ Len(pending) = 1
    /\ NumActive(active) = 1
    /\ \E w \in DOMAIN workers : workers[w].pc = "deleted"

\* C25: a step of a worker thread never writes Job.status: when run() leaves its
\* entry point (mark_running and the launch), the status of the worker's job is
\* what it was before the step.
C25_WorkerNeverWritesStatus ==
    [][ \A w \in DOMAIN workers :
          (workers[w].pc = "queued" /\ workers'[w].pc \in {"read", "done"})
          => jobs'[workers[w].job].status = jobs[workers[w].job].status ]_vars

\* C26: pause is a sub-state of Running.  A step that sets or clears a worker's
\* pause flag changes no job, queues no event and publishes no status.  A line
\* read while the pause flag is set is held without any event; in the pause loop
\* the worker emits nothing and keeps the held line and its place in the stream,
\* and it leaves the loop only once resume() or cancel() was called, emitting then
\* exactly the events of the held line before it reads on.
C26_PauseIsSubstateOfRunning ==
    [][ \A w \in DOMAIN workers :
          LET wr == workers[w]
              wn == workers'[w]
          IN /\ (wr.pause # wn.pause /\ wn.pc # "deleted")
                => jobs' = jobs /\ evQ' = evQ /\ job_status' = NoStatus
             /\ (wr.pc = "read" /\ wn.pc = "paused")
                => wn.trace = wr.trace /\ wn.nread = wr.nread + 1
             /\ (wr.pc = "paused" /\ wn.pc = "paused")
                => wn.trace = wr.trace /\ wn.line = wr.line /\ wn.nread = wr.nread
             /\ (wr.pc = "paused" /\ wn.pc # "paused")
                => /\ ~wr.pause \/ wr.stop
                   /\ wn.pc = "read"
                   /\ wn.nread = wr.nread
                   /\ wn.trace = wr.trace \o Kinds(LineEvents(w, wr.line, wr.nread, wr.duration)) ]_vars

\* C26 witness: a worker that logged a first line observed the pause flag at a
\* line with a time= token; resume() was called and no cancel(), and the worker is
\* about to go on with the held line while its job is Running.
C26_ResumedWithHeldLine ==
    \E w \in DOMAIN workers :
        /\ workers[w].pc = "paused"
        /\ ~workers[w].pause /\ ~workers[w].stop
        /\ workers[w].line.kind = "time"
        /\ workers[w].nread = 2
        /\ Count(workers[w].trace, "log") = 1
        /\ jobs[workers[w].job].status = "Running"

\* A further cancel() on worker w, whose stop flag is already set: it changes
\* nothing of the worker but, at most, the signal sent to a process still running.
CancelsAgain(w) ==
    /\ workers[w].stop
    /\ workers'[w] # workers[w]
    /\ workers'[w] = cancel(workers[w])

\* C27: cancel() called again on a worker leaves its flags, its events and its job
\* as they are, and a worker on which cancel() was called, once or more, before
\* its run ended emits exactly one finished event, which reports Canceled.
C27_CancelIdempotent ==
    [][ \A w \in DOMAIN workers :
          /\ CancelsAgain(w) => evQ' = evQ /\ jobs' = jobs /\ workers'[w].stop
          /\ (workers[w].stop /\ workers[w].pc \in {"queued", "read", "paused"}
              /\ workers'[w].pc = "done")
             => LET e == evQ'[Len(evQ')]
                IN /\ Len(evQ') = Len(evQ) + 1
                   /\ e.kind = "finished" /\ e.w = w
                   /\ ~e.ok /\ e.msg = Msg("Canceled", <<>>)
                   /\ Count(workers'[w].trace, "finished") = 1 ]_vars

\* Non-empty lines that carry no usable time: text without "time=", or a time=
\* token that is not three numeric fields.
NoiseLines ==
    {ln \in Lines : ln.kind = "noise"
                    \/ (ln.kind = "time" /\ (Len(ln.tok.parts) # 3 \/ ~ln.tok.numeric))}

\* C28: whenever the reading loop takes a noise line (stop and pause flags clear),
\* the worker emits one log event for it and no progress event, stays in the loop,
\* and keeps everything its outcome depends on (flags, process, exit code), the job
\* unchanged; and a worker whose run has ended has emitted finished exactly once.
C28_NoiseIsLoggedOnly ==
    \A w \in DOMAIN workers :
        /\ (workers[w].pc = "read" /\ ~workers[w].stop /\ ~workers[w].pause /\ linesLeft > 0)
           => \A ln \in NoiseLines :
                ENABLED ( /\ WorkerReadLine(w, ln)
                          /\ evQ' = Append(evQ, Ev(w, "log", FALSE, NoMsg, workers[w].nread + 1))
                          /\ jobs' = jobs
                          /\ workers' = [workers EXCEPT
                                ![w].nread = @ + 1,
                                ![w].trace = Append(@, <<"log", workers[w].nread + 1>>)] )
        /\ workers[w].pc = "done" => Count(workers[w].trace, "finished") = 1

\* C28 witness: a run that logged a first line without progress, then a line with
\* progress, and ended reporting success.
C28_NoiseThenSuccess ==
    \E w \in DOMAIN workers :
        /\ workers[w].pc = "done"
        /\ ~workers[w].stop
        /\ \E i \in DOMAIN workers[w].trace :
              /\ workers[w].trace[i] = <<"log", 1>>
              /\ workers[w].trace[i + 1] = <<"log", 2>>
              /\ workers[w].trace[i + 2][1] = "progress"
              /\ workers[w].trace[i + 3][1] = "finished"
        /\ \E k \in DOMAIN evQ : evQ[k].kind = "finished" /\ evQ[k].w = w /\ evQ[k].ok

\* C29: whenever queue_finished is emitted, every dispatched worker has had its
\* finished event handled and no job waits in pending.
C29_QueueFinishedMeansNoWorkLeft ==
    queue_finished => (Running = {} /\ pending = <<>>)

ReportsCanceled(w) ==
    \E k \in DOMAIN evQ :
        /\ evQ[k].w = w /\ evQ[k].kind = "finished"
        /\ ~evQ[k].ok /\ evQ[k].msg = Msg("Canceled", <<>>)

CanceledInPauseLoop(w) ==
    w \in DOMAIN workers /\ workers[w].pc = "paused" /\ workers[w].stop

\* C31: a worker waiting in the pause loop on which cancel() was called can leave
\* the loop with its pause flag as it is, resuming the suspended process; it then
\* emits a finished event reporting Canceled, and that event is handled, which
\* takes the job out of active.
C31_CancelOverridesPause ==
    /\ [](\A w \in WorkerIds :
            CanceledInPauseLoop(w)
            => ENABLED ( /\ WorkerPauseExit(w)
                         /\ workers'[w].pc = "read"
                         /\ ~workers'[w].suspended
                         /\ workers'[w].pause = workers[w].pause ))
    /\ \A w \in WorkerIds : CanceledInPauseLoop(w) ~> ReportsCanceled(w)
    /\ \A w \in WorkerIds :
          CanceledInPauseLoop(w)
          ~> (w \in DOMAIN workers /\ workers[w].pc = "deleted" /\ active[workers[w].job] # w)

\* C31 witness: cancel() has reached a worker that waits in the pause loop with its
\* process suspended, and no resume was called.
C31_CanceledWhileSuspended ==
    \E w \in DOMAIN workers :
        /\ CanceledInPauseLoop(w)
        /\ workers[w].pause
        /\ workers[w].suspended
        /\ workers[w].signalled
        /\ active[workers[w].job] = w

====
